---------------------------- MODULE Spec2Model ----------------------------
(***************************************************************************)
(* A model of the geometries package: Position, Orientation and Pose       *)
(* (geometries/pose), Transformation (geometries/transforms) and the       *)
(* coordinate-system converters (geometries/coordinate_systems).           *)
(*                                                                         *)
(* Numbers.  The package computes in float64.  The model computes exactly, *)
(* on the inputs for which every intermediate value is exact:              *)
(*   - a quaternion is a record [v |-> <<x, y, z, w>>, s |-> n] of         *)
(*     integers standing for the real 4-vector v / sqrt(s)  (scipy's       *)
(*     component order, x y z w).  A unit quaternion has s = |v|^2 and v   *)
(*     primitive (gcd 1), which makes the record of a unit quaternion      *)
(*     unique: two unit quaternions are equal exactly when their records   *)
(*     are.  The 48 unit quaternions with components in {-1, 0, 1} and     *)
(*     s in {1, 2, 4} are the binary octahedral group: all rotations by    *)
(*     multiples of 90 degrees about the axes and their products, with     *)
(*     both signs q and -q.                                                *)
(*   - positions and translations are integer 3-vectors; the rotation      *)
(*     matrix of an octahedral quaternion is a signed permutation matrix.  *)
(*   - an angle is a record [dir |-> <<c, s>>, turns |-> k]: a primitive   *)
(*     integer direction with an integer hypotenuse, and k full turns, for *)
(*     the real angle atan2(s, c) + 2*pi*k.                                *)
(* "Within tolerance" in a claim is equality in this exact arithmetic.     *)
(***************************************************************************)
EXTENDS Integers, Sequences, FiniteSets, TLC

VARIABLES
    position_objs,      \* heap of Position objects: id -> _position array <<x, y, z>>
    orientation_objs,   \* heap of Orientation objects: id -> _orientation array
    pose_objs,          \* heap of Pose objects: id -> [position |-> id, orientation |-> id]
    calls,              \* history: the constructor, conversion and setter calls made so far
    translation,        \* Transformation.translation
    rotation,           \* Transformation.rotation
    transformation_matrix, \* Transformation.transformation_matrix (cached at construction)
    constructed,        \* history: the arguments the Transformation was constructed with
    returned,           \* history: the last method call on the Transformation and what it returned
    conv_calls,         \* history: the converter calls made, each [fn, arg, ret]
    msg_calls           \* history: the message conversions made, each [fn, arg, ret]

pose_vars == <<position_objs, orientation_objs, pose_objs, calls>>
transform_vars == <<translation, rotation, transformation_matrix, constructed, returned>>
vars == <<position_objs, orientation_objs, pose_objs, calls,
          translation, rotation, transformation_matrix, constructed, returned,
          conv_calls, msg_calls>>

-----------------------------------------------------------------------------
(* Bounds *)

\* Calls made on the Pose, Position and Orientation objects after the first
\* Pose is constructed.
MaxCalls == 2

-----------------------------------------------------------------------------
(* Integer helpers *)

Abs(n) == IF n < 0 THEN -n ELSE n

RECURSIVE Gcd(_, _)
Gcd(a, b) == IF b = 0 THEN Abs(a) ELSE Gcd(b, Abs(a) % Abs(b))

\* exact quotient of integers, defined where b divides a
Quot(a, b) == IF a >= 0 THEN a \div b ELSE -((-a) \div b)

Dot3(a, b) == a[1] * b[1] + a[2] * b[2] + a[3] * b[3]

-----------------------------------------------------------------------------
(* scipy.spatial.transform.Rotation, on exact quaternions *)

Norm2(v) == v[1] * v[1] + v[2] * v[2] + v[3] * v[3] + v[4] * v[4]

Gcd4(v) == Gcd(Gcd(v[1], v[2]), Gcd(v[3], v[4]))

\* Rotation.from_quat: the unit quaternion q / |q| (no sign is chosen: q and -q
\* stay different).  Defined for |q| # 0; scipy raises ValueError on |q| = 0.
from_quat(q) ==
    LET g == Gcd4(q.v)
        u == [i \in 1..4 |-> Quot(q.v[i], g)]
    IN  [v |-> u, s |-> Norm2(u)]

\* Rotation.as_quat(): the stored unit quaternion, x y z w, no canonical sign.
as_quat(R) == R

\* Hamilton product p * q of two quaternions in x y z w order.
Hamilton(p, q) ==
    << p[4] * q[1] + p[1] * q[4] + p[2] * q[3] - p[3] * q[2],
       p[4] * q[2] - p[1] * q[3] + p[2] * q[4] + p[3] * q[1],
       p[4] * q[3] + p[1] * q[2] - p[2] * q[1] + p[3] * q[4],
       p[4] * q[4] - p[1] * q[1] - p[2] * q[2] - p[3] * q[3] >>

\* Rotation.__mul__: p * q composes the rotations (q first, then p) as the
\* quaternion product, normalised.
compose(p, q) == from_quat([v |-> Hamilton(p.v, q.v), s |-> p.s * q.s])

\* Rotation.inv(): the conjugate.
inv(R) == [v |-> << -R.v[1], -R.v[2], -R.v[3], R.v[4] >>, s |-> R.s]

\* Rotation.as_matrix() of the unit quaternion v / sqrt(s), s = |v|^2.
as_matrix(R) ==
    LET x == R.v[1]
        y == R.v[2]
        z == R.v[3]
        w == R.v[4]
        n == Norm2(R.v)
    IN  << << Quot(x*x - y*y - z*z + w*w, n), Quot(2 * (x*y - z*w), n), Quot(2 * (x*z + y*w), n) >>,
           << Quot(2 * (x*y + z*w), n), Quot(-x*x + y*y - z*z + w*w, n), Quot(2 * (y*z - x*w), n) >>,
           << Quot(2 * (x*z - y*w), n), Quot(2 * (y*z + x*w), n), Quot(-x*x - y*y + z*z + w*w, n) >> >>

\* Rotation.apply(vector): the rotation matrix times the vector.
apply(R, vec) ==
    LET m == as_matrix(R)
    IN  << Dot3(m[1], vec), Dot3(m[2], vec), Dot3(m[3], vec) >>

\* (sin, cos) of k * 45 degrees, as a direction: the values are this over its length.
HalfAngle(k) ==
    CASE k % 8 = 0 -> << 0, 1 >>
      [] k % 8 = 1 -> << 1, 1 >>
      [] k % 8 = 2 -> << 1, 0 >>
      [] k % 8 = 3 -> << 1, -1 >>
      [] k % 8 = 4 -> << 0, -1 >>
      [] k % 8 = 5 -> << -1, -1 >>
      [] k % 8 = 6 -> << -1, 0 >>
      [] OTHER     -> << -1, 1 >>

\* Rotation.from_euler(axis, angle, degrees=True) for one axis and an angle that
\* is a multiple of 90 degrees: sin(angle/2) on the axis, cos(angle/2) as w.
from_euler(axis, degrees) ==
    LET h == HalfAngle(Quot(degrees, 90))
        i == CASE axis = "x" -> 1 [] axis = "y" -> 2 [] OTHER -> 3
    IN  from_quat([v |-> [j \in 1..4 |-> IF j = i THEN h[1] ELSE IF j = 4 THEN h[2] ELSE 0],
                   s |-> h[1] * h[1] + h[2] * h[2]])

\* The unit quaternions of the model: the binary octahedral group.
UnitQuaternions ==
    { [v |-> u, s |-> Norm2(u)] :
        u \in { t \in [1..4 -> -1..1] : Norm2(t) \in {1, 2, 4} } }

IsUnit(q) == Norm2(q.v) = q.s

-----------------------------------------------------------------------------
(* geometries/pose: Position, Orientation, Pose *)

\* Position(x, y, z): a new _position array.
Position(x, y, z) == << x, y, z >>

\* Orientation(qx, qy, qz, qw): a new _orientation array, stored as given.
Orientation(q) == q

\* The values a Pose holds, read through its two references.
PosePosition(p) == position_objs[pose_objs[p].position]
PoseOrientation(p) == orientation_objs[pose_objs[p].orientation]

ConversionOps == {"flu_to_enu", "flu_from_enu", "flu_to_ned", "flu_from_ned", "rotate_any"}

\* The rotation each conversion hands to rotate_any.
flu_to_enu_R_positive == from_euler("z", 90)
flu_to_enu_R == from_euler("z", -90)
flu_from_enu_R_copied == from_euler("z", -90)
flu_from_enu_R == from_euler("z", 90)
flu_to_ned_R_quarter == from_euler("x", 90)
flu_to_ned_R == from_euler("x", 180)

\* rotate_any, line 73: new_pos = R.apply(pos)
rotate_any_position(R, pos) == apply(R, pos)

\* rotate_any, lines 75-80: new_rot = R * orig_rot, as a quaternion
rotate_any_orientation_right(R, quat) == as_quat(compose(from_quat(quat), R))
rotate_any_orientation(R, quat) == as_quat(compose(R, from_quat(quat)))

\* rotate_any, lines 82-84: the Position and the Orientation of the returned
\* Pose are new objects.
rotate_any_position_obj_shared(self) == pose_objs[self].position
rotate_any_position_obj(self) == Len(position_objs) + 1

rotate_any_orientation_obj(self) == Len(orientation_objs) + 1

\* The heap after storing value at id: a new object when id is past the end.
Store(heap, id, value) ==
    IF id = Len(heap) + 1 THEN Append(heap, value) ELSE [heap EXCEPT ![id] = value]

\* Pose.rotate_any(R), called as op.  from_quat raises ValueError on a zero
\* quaternion, and no Pose is built.
rotate_any(self, R, op) ==
    /\ Len(calls) < MaxCalls
    /\ Norm2(PoseOrientation(self).v) # 0
    /\ LET new_pos == rotate_any_position(R, PosePosition(self))
           new_quat == rotate_any_orientation(R, PoseOrientation(self))
           pid == rotate_any_position_obj(self)
           oid == rotate_any_orientation_obj(self)
       IN  /\ position_objs' = Store(position_objs, pid, Position(new_pos[1], new_pos[2], new_pos[3]))
           /\ orientation_objs' = Store(orientation_objs, oid, Orientation(new_quat))
           /\ pose_objs' = Append(pose_objs, [position |-> pid, orientation |-> oid])
           /\ calls' = Append(calls,
                  [op |-> op, self |-> self, R |-> R, ret |-> Len(pose_objs) + 1,
                   self_position |-> PosePosition(self),
                   self_orientation |-> PoseOrientation(self),
                   self_position_after |-> position_objs'[pose_objs[self].position],
                   self_orientation_after |-> orientation_objs'[pose_objs[self].orientation],
                   ret_position |-> position_objs'[pid],
                   ret_orientation |-> orientation_objs'[oid]])
    /\ UNCHANGED <<transform_vars, conv_calls, msg_calls>>

flu_to_enu(self) == rotate_any(self, flu_to_enu_R, "flu_to_enu")

flu_from_enu(self) == rotate_any(self, flu_from_enu_R, "flu_from_enu")

flu_to_ned(self, op) == rotate_any(self, flu_to_ned_R, op)

\* flu_from_ned returns self.flu_to_ned()
flu_from_ned(self) == flu_to_ned(self, "flu_from_ned")

\* Pose(position, orientation): the Pose keeps the two objects it is given;
\* id 0 is None, for which it builds a default object.
PoseInit(position, orientation) ==
    /\ Len(calls) < MaxCalls
    /\ LET pid == IF position = 0 THEN Len(position_objs) + 1 ELSE position
           oid == IF orientation = 0 THEN Len(orientation_objs) + 1 ELSE orientation
       IN  /\ position_objs' = IF position = 0
                               THEN Append(position_objs, Position(0, 0, 0))
                               ELSE position_objs
           /\ orientation_objs' = IF orientation = 0
                                  THEN Append(orientation_objs, Orientation([v |-> <<0, 0, 0, 1>>, s |-> 1]))
                                  ELSE orientation_objs
           /\ pose_objs' = Append(pose_objs, [position |-> pid, orientation |-> oid])
           /\ calls' = Append(calls,
                  [op |-> "Pose", position |-> position, orientation |-> orientation,
                   ret |-> Len(pose_objs) + 1])
    /\ UNCHANGED <<transform_vars, conv_calls, msg_calls>>

\* Position.x / .y / .z setter on Position object obj: component i of its array.
position_setter(obj, i, value) ==
    /\ Len(calls) < MaxCalls
    /\ position_objs' = [position_objs EXCEPT ![obj][i] = value]
    /\ calls' = Append(calls,
           [op |-> "position_setter", obj |-> obj, i |-> i, value |-> value,
            positions_before |-> position_objs, positions_after |-> position_objs',
            orientations_before |-> orientation_objs, orientations_after |-> orientation_objs])
    /\ UNCHANGED <<orientation_objs, pose_objs, transform_vars, conv_calls, msg_calls>>

\* Orientation.qx / .qy / .qz / .qw setter on Orientation object obj: component
\* i of its array; value is in the units of the array (value / sqrt(s)).
orientation_setter(obj, i, value) ==
    /\ Len(calls) < MaxCalls
    /\ orientation_objs' = [orientation_objs EXCEPT ![obj].v[i] = value]
    /\ calls' = Append(calls,
           [op |-> "orientation_setter", obj |-> obj, i |-> i, value |-> value,
            positions_before |-> position_objs, positions_after |-> position_objs,
            orientations_before |-> orientation_objs, orientations_after |-> orientation_objs'])
    /\ UNCHANGED <<position_objs, pose_objs, transform_vars, conv_calls, msg_calls>>

-----------------------------------------------------------------------------
(* Inputs of the pose specifications *)

PositionInputs == { <<1, 2, 3>>, <<0, -1, 0>> }

\* Rotations handed to rotate_any: quarter turns about x and y (which do not
\* commute), a third of a turn about the diagonal, and the identity as -1.
RotationInputs ==
    { from_euler("x", 90), from_euler("y", 90),
      [v |-> <<1, 1, 1, 1>>, s |-> 4], [v |-> <<0, 0, 0, -1>>, s |-> 1] }

SetterValues == { 0, 7 }

-----------------------------------------------------------------------------
(* numpy arrays: [shape |-> the shape tuple, data |-> the nested rows] *)

\* Batch rows of a points array, and rows of a converter array.
MaxRows == 2

ndim(a) == Len(a.shape)

Array1(row) == [shape |-> << Len(row) >>, data |-> row]

Array2(rows, ncols) == [shape |-> << Len(rows), ncols >>, data |-> rows]

\* an (n, 3, 1) array: every scalar of an (n, 3) array wrapped in a row of its own
Array3(rows) ==
    [shape |-> << Len(rows), 3, 1 >>,
     data |-> [r \in 1..Len(rows) |-> [c \in 1..3 |-> << rows[r][c] >>]]]

\* the sequences of at most n elements of S
SeqsUpTo(S, n) == UNION { [1..k -> S] : k \in 0..n }

\* what a call did: returned value, or raised the exception of this name
Returns(value) == [raised |-> "None", value |-> value]
Raises(exception) == [raised |-> exception, value |-> <<>>]

-----------------------------------------------------------------------------
(* geometries/transforms: Transformation *)

\* compute_transformation_matrix: [[R, t], [0, 1]] with R the rotation matrix
\* of the quaternion and t the translation.
compute_transformation_matrix(t, q) ==
    LET rot_matrix == as_matrix(from_quat(q))
    IN  << rot_matrix[1] \o << t[1] >>, rot_matrix[2] \o << t[2] >>,
           rot_matrix[3] \o << t[3] >>, << 0, 0, 0, 1 >> >>

Dot4(a, b) == a[1] * b[1] + a[2] * b[2] + a[3] * b[3] + a[4] * b[4]

\* transformation_matrix.dot(points_homogeneous)[:3], lines 59-63
TransformPoint(m, point) ==
    LET points_homogeneous == point \o << 1 >>
    IN  << Dot4(m[1], points_homogeneous), Dot4(m[2], points_homogeneous),
           Dot4(m[3], points_homogeneous) >>

\* apply_transformation, lines 57 and 65: the shapes it takes
apply_accepts_single(points) == ndim(points) = 1 /\ points.shape = << 3 >>

apply_accepts_batch(points) == ndim(points) = 2 /\ points.shape[2] = 3

\* apply_transformation(points) with the cached matrix m
apply_transformation_result_passes(m, points) ==
    IF apply_accepts_single(points)
    THEN Returns(Array1(TransformPoint(m, SubSeq(points.data, 1, 3))))
    ELSE IF apply_accepts_batch(points)
    THEN Returns(Array2([r \in 1..points.shape[1] |-> TransformPoint(m, SubSeq(points.data[r], 1, 3))], 3))
    ELSE Returns(points)
apply_transformation_result(m, points) ==
    IF apply_accepts_single(points)
    THEN Returns(Array1(TransformPoint(m, SubSeq(points.data, 1, 3))))
    ELSE IF apply_accepts_batch(points)
    THEN Returns(Array2([r \in 1..points.shape[1] |-> TransformPoint(m, SubSeq(points.data[r], 1, 3))], 3))
    ELSE Raises("ValueError")

\* Transformation.apply_transformation(points)
apply_transformation(points) ==
    /\ returned' = [op |-> "apply_transformation", points |-> points,
                    ret |-> apply_transformation_result(transformation_matrix, points),
                    before |-> << translation, rotation, transformation_matrix >>]
    /\ UNCHANGED <<translation, rotation, transformation_matrix, constructed,
                   pose_vars, conv_calls, msg_calls>>

\* t.translation = value: an assignment to the attribute __init__ set; nothing
\* recomputes the matrix.
translation_assign(value) ==
    /\ translation' = value
    /\ returned' = [op |-> "translation_assign"]
    /\ UNCHANGED <<rotation, transformation_matrix, constructed, pose_vars, conv_calls, msg_calls>>

\* t.rotation = value
rotation_assign(value) ==
    /\ rotation' = value
    /\ returned' = [op |-> "rotation_assign"]
    /\ UNCHANGED <<translation, transformation_matrix, constructed, pose_vars, conv_calls, msg_calls>>

\* The names bound at module level of transformation.py: when it is imported,
\* and when it is run as a script (lines 138-142 bind four more).
ImportedGlobals == {"np", "Rotation", "Pose", "Transformation"}
MainGlobals == ImportedGlobals \cup
    {"parent_position", "parent_rotation", "child_position", "child_rotation"}

\* parent_rotation and child_rotation as lines 139 and 142 bind them
MainParentRotation == [v |-> <<0, 0, 0, 1>>, s |-> 1]
MainChildRotation == [v |-> <<1, 0, 0, 1>>, s |-> 2]

\* The methods of scipy's Rotation the package calls or names.
RotationMethods == {"from_quat", "from_euler", "from_matrix", "as_quat", "as_matrix",
                    "as_euler", "apply", "inv"}

\* from_global_poses(parent_pose, child_pose), lines 92-99.  Line 92 computes
\* the translation; line 95 reads parent_rotation, and line 96 child_rotation,
\* names that are no parameter or local of the method, and calls a method
\* multiply of Rotation.
from_global_poses_result(parent_pose, child_pose, globals) ==
    LET t == [i \in 1..3 |-> child_pose.position[i] - parent_pose.position[i]]
    IN  IF "parent_rotation" \notin globals THEN Raises("NameError")
        ELSE IF "child_rotation" \notin globals THEN Raises("NameError")
        ELSE IF "multiply" \notin RotationMethods THEN Raises("AttributeError")
        ELSE Returns([translation |-> t,
                      rotation |-> as_quat(compose(from_quat(MainChildRotation),
                                                   inv(from_quat(MainParentRotation))))])

\* Transformation.from_global_poses(parent_pose, child_pose), a classmethod
from_global_poses(parent_pose, child_pose, globals) ==
    /\ returned' = [op |-> "from_global_poses", parent_pose |-> parent_pose,
                    child_pose |-> child_pose,
                    ret |-> from_global_poses_result(parent_pose, child_pose, globals)]
    /\ UNCHANGED <<translation, rotation, transformation_matrix, constructed,
                   pose_vars, conv_calls, msg_calls>>

-----------------------------------------------------------------------------
(* geometries/coordinate_systems: the converters *)

\* Converter calls in a row, each after the first on what the one before returned.
MaxConvCalls == 2

\* the integer square root of a perfect square
RECURSIVE SqrtFrom(_, _)
SqrtFrom(n, k) == IF k * k >= n THEN k ELSE SqrtFrom(n, k + 1)
sqrt(n) == SqrtFrom(n, 0)

IsSquare(n) == sqrt(n) * sqrt(n) = n

Primitive2(d) == LET g == Gcd(d[1], d[2]) IN << Quot(d[1], g), Quot(d[2], g) >>

Hyp(d) == sqrt(d[1] * d[1] + d[2] * d[2])

\* An angle: direction (cos, sin) * Hyp and full turns.  NaN has no direction.
Angle(d, k) == [dir |-> d, turns |-> k]
NaN == Angle(<< 0, 0 >>, 0)

\* r * cos(theta) and r * sin(theta), exact where Hyp divides the product
TimesCos(r, theta) == Quot(r * theta.dir[1], Hyp(theta.dir))
TimesSin(r, theta) == Quot(r * theta.dir[2], Hyp(theta.dir))

\* np.arctan2(y, x): the angle of (x, y) in (-pi, pi], and 0 at the origin
arctan2(y, x) ==
    IF x = 0 /\ y = 0 THEN Angle(<< 1, 0 >>, 0) ELSE Angle(Primitive2(<< x, y >>), 0)

\* np.arccos(np.clip(z / r, -1, 1)) for r = sqrt(x^2 + y^2 + z^2): the angle in
\* [0, pi] whose cosine is z / r; z / r is nan for r = 0, and so is the result
arccos_clip(z, rho, r) ==
    IF r = 0 THEN NaN ELSE Angle(Primitive2(<< z, rho >>), 0)

\* points.ndim == 2 and points.shape[1] == 3, the test of all four converters
IsNx3_at_least(points) == ndim(points) = 2 /\ points.shape[2] >= 3
IsNx3(points) == ndim(points) = 2 /\ points.shape[2] = 3

\* one row of each converter: lines 22-24, 45-47, 74-75, 96-97
spherical_to_cartesian_row(p) ==
    LET r == p[1]
        theta == p[2]
        phi == p[3]
    IN  << Quot(r * phi.dir[2] * theta.dir[1], Hyp(phi.dir) * Hyp(theta.dir)),
           Quot(r * phi.dir[2] * theta.dir[2], Hyp(phi.dir) * Hyp(theta.dir)),
           TimesCos(r, phi) >>

cartesian_to_spherical_row_from_xy(p) ==
    LET x == p[1]
        y == p[2]
        z == p[3]
        r == sqrt(x * x + y * y + z * z)
    IN  << r, arctan2(y, x), arccos_clip(sqrt(x * x + y * y), z, r) >>
cartesian_to_spherical_row(p) ==
    LET x == p[1]
        y == p[2]
        z == p[3]
        r == sqrt(x * x + y * y + z * z)
    IN  << r, arctan2(y, x), arccos_clip(z, sqrt(x * x + y * y), r) >>

cylindrical_to_cartesian_row(p) ==
    LET r == p[1]
        theta == p[2]
        z == p[3]
    IN  << TimesCos(r, theta), TimesSin(r, theta), z >>

cartesian_to_cylindrical_row_swapped(p) ==
    LET x == p[1]
        y == p[2]
        z == p[3]
    IN  << sqrt(x * x + y * y), arctan2(x, y), z >>
cartesian_to_cylindrical_row(p) ==
    LET x == p[1]
        y == p[2]
        z == p[3]
    IN  << sqrt(x * x + y * y), arctan2(y, x), z >>

\* the four converters: the shape test, then np.column_stack of the rows
spherical_to_cartesian(points) ==
    IF IsNx3(points)
    THEN Returns(Array2([i \in 1..points.shape[1] |-> spherical_to_cartesian_row(points.data[i])], 3))
    ELSE Raises("ValueError")

cartesian_to_spherical(points) ==
    IF IsNx3(points)
    THEN Returns(Array2([i \in 1..points.shape[1] |-> cartesian_to_spherical_row(points.data[i])], 3))
    ELSE Raises("ValueError")

cylindrical_to_cartesian(points) ==
    IF IsNx3(points)
    THEN Returns(Array2([i \in 1..points.shape[1] |-> cylindrical_to_cartesian_row(points.data[i])], 3))
    ELSE Raises("ValueError")

cartesian_to_cylindrical(points) ==
    IF IsNx3(points)
    THEN Returns(Array2([i \in 1..points.shape[1] |-> cartesian_to_cylindrical_row(points.data[i])], 3))
    ELSE Raises("ValueError")

-----------------------------------------------------------------------------
(* Inputs of the converter specification *)

\* theta = 0 with r < 0 puts the point on the negative x axis with y = -0.0,
\* where float arctan2 returns -pi and exact arithmetic pi: left out.
AngleInputs ==
    { Angle(<< 1, 0 >>, 0), Angle(<< 0, 1 >>, 0), Angle(<< -1, 0 >>, 0),
      Angle(<< 0, -1 >>, 0), Angle(<< 3, 4 >>, 0), Angle(<< -4, 3 >>, 0),
      Angle(<< 0, 1 >>, 1), Angle(<< 3, 4 >>, -1) }

CylindricalRows ==
    { p \in { << r, theta, 12 >> : r \in {-5, 0, 5}, theta \in AngleInputs } :
        ~(p[1] < 0 /\ p[2].dir[2] = 0) }

PolarInputs ==
    { Angle(<< 0, 1 >>, 0), Angle(<< 3, 4 >>, 0), Angle(<< -4, 3 >>, 0), Angle(<< 1, 0 >>, 0) }

AzimuthInputs ==
    { Angle(<< 1, 0 >>, 0), Angle(<< 3, 4 >>, 0), Angle(<< 0, -1 >>, 0), Angle(<< 0, 1 >>, 1) }

SphericalRows == { << r, theta, phi >> : r \in {0, 25}, theta \in AzimuthInputs, phi \in PolarInputs }

CartesianRows == { <<0, 0, 0>>, <<3, 4, 12>>, <<-5, 0, 0>>, <<0, -5, 12>>, <<4, -3, 0>> }

RowsOf(kind) ==
    CASE kind = "spherical" -> SphericalRows
      [] kind = "cylindrical" -> CylindricalRows
      [] OTHER -> CartesianRows

\* arrays that are not N x 3, built from one row: a point (3,), two and four
\* columns, (N, 3, 1), and a scalar
OtherShapes(row) ==
    { Array1(row), Array3(<< row >>), [shape |-> << >>, data |-> row[1]] }
    \cup { Array2([i \in 1..n |-> SubSeq(row, 1, 2)], 2) : n \in 0..MaxRows }
    \cup { Array2([i \in 1..n |-> row \o << row[1] >>], 4) : n \in 0..MaxRows }

ConverterInputs(kind) ==
    { Array2(rows, 3) : rows \in SeqsUpTo(RowsOf(kind), MaxRows) }
    \cup OtherShapes(CHOOSE row \in RowsOf(kind) : row[1] # 0)

InKind(fn) ==
    CASE fn = "spherical_to_cartesian" -> "spherical"
      [] fn = "cylindrical_to_cartesian" -> "cylindrical"
      [] OTHER -> "cartesian"

OutKind(fn) ==
    CASE fn = "cartesian_to_spherical" -> "spherical"
      [] fn = "cartesian_to_cylindrical" -> "cylindrical"
      [] OTHER -> "cartesian"

\* the arrays on which fn's arithmetic is exact in the model
Exact(fn, points) ==
    \/ ~IsNx3(points)
    \/ \A i \in 1..points.shape[1] :
          LET p == points.data[i]
          IN  CASE fn = "cartesian_to_spherical" ->
                       IsSquare(p[1] * p[1] + p[2] * p[2])
                       /\ IsSquare(p[1] * p[1] + p[2] * p[2] + p[3] * p[3])
                [] fn = "cartesian_to_cylindrical" -> IsSquare(p[1] * p[1] + p[2] * p[2])
                [] fn = "spherical_to_cartesian" -> p[2] # NaN /\ p[3] # NaN
                [] OTHER -> TRUE

\* what a call of fn may be handed: an input when it is the first call, and
\* then what the call before returned, when that is of fn's kind
Arguments(fn) ==
    IF conv_calls = << >> THEN ConverterInputs(InKind(fn))
    ELSE LET last == conv_calls[Len(conv_calls)]
         IN  IF last.ret.raised = "None" /\ OutKind(last.fn) = InKind(fn)
                /\ Exact(fn, last.ret.value)
             THEN { last.ret.value } ELSE {}

Call(fn, arg, ret) ==
    /\ Len(conv_calls) < MaxConvCalls
    /\ conv_calls' = Append(conv_calls, [fn |-> fn, arg |-> arg, ret |-> ret])
    /\ UNCHANGED <<pose_vars, transform_vars, msg_calls>>

call_spherical_to_cartesian ==
    \E points \in Arguments("spherical_to_cartesian") :
        Call("spherical_to_cartesian", points, spherical_to_cartesian(points))

call_cartesian_to_spherical ==
    \E points \in Arguments("cartesian_to_spherical") :
        Call("cartesian_to_spherical", points, cartesian_to_spherical(points))

call_cylindrical_to_cartesian ==
    \E points \in Arguments("cylindrical_to_cartesian") :
        Call("cylindrical_to_cartesian", points, cylindrical_to_cartesian(points))

call_cartesian_to_cylindrical ==
    \E points \in Arguments("cartesian_to_cylindrical") :
        Call("cartesian_to_cylindrical", points, cartesian_to_cylindrical(points))

-----------------------------------------------------------------------------
(* tests/px4_nav2.py: the odometry message conversions *)

\* Message conversions in a row.
MaxMsgCalls == 2

\* A PX4 message is [position, q, velocity, angular_velocity], q in w x y z
\* order; a nav2 message is [position, orientation, linear, angular], the
\* orientation in x y z w order.  Both quaternions are records [v, s].

\* quat_ned = [px4_q[1], px4_q[2], px4_q[3], px4_q[0]]: w x y z to x y z w
quat_ned(px4_q) == [v |-> << px4_q.v[2], px4_q.v[3], px4_q.v[4], px4_q.v[1] >>, s |-> px4_q.s]

\* px4_odom.q = [q.qw, q.qx, q.qy, q.qz]: x y z w to w x y z
px4_q_kept(q) == [v |-> << q.v[1], q.v[2], q.v[3], q.v[4] >>, s |-> q.s]
px4_q(q) == [v |-> << q.v[4], q.v[1], q.v[2], q.v[3] >>, s |-> q.s]

\* Pose(pos, orient) inside a conversion, by its values
PoseOf(position, q) == [position |-> position, orientation |-> Orientation(q)]

\* what pose.rotate_any(R) returns, by its values
Rotated(pose, R) ==
    [position |-> rotate_any_position(R, pose.position),
     orientation |-> rotate_any_orientation(R, pose.orientation)]

\* the twist chain of convert_px4_to_nav2: R_ned_to_flu, then R_flu_to_enu
px4_to_nav2_twist(v) ==
    LET R_ned_to_flu == from_euler("x", 180)
        R_flu_to_enu == from_euler("z", -90)
        v_flu == apply(R_ned_to_flu, v)
    IN  apply(R_flu_to_enu, v_flu)

\* the twist chain of convert_nav2_to_px4: R_enu_to_flu, then R_flu_to_ned
nav2_to_px4_twist_swapped(v) ==
    LET R_enu_to_flu == from_euler("z", 90)
        R_flu_to_ned == from_euler("x", 180)
        v_flu == apply(R_flu_to_ned, v)
    IN  apply(R_enu_to_flu, v_flu)
nav2_to_px4_twist(v) ==
    LET R_enu_to_flu == from_euler("z", 90)
        R_flu_to_ned == from_euler("x", 180)
        v_flu == apply(R_enu_to_flu, v)
    IN  apply(R_flu_to_ned, v_flu)

\* convert_px4_to_nav2(px4_odom): the pose through flu_from_ned and flu_to_enu,
\* the two velocities through the twist chain
convert_px4_to_nav2(px4_odom) ==
    LET pose_ned == PoseOf(Position(px4_odom.position[1], px4_odom.position[2], px4_odom.position[3]),
                           quat_ned(px4_odom.q))
        pose_flu == Rotated(pose_ned, flu_to_ned_R)
        pose_enu == Rotated(pose_flu, flu_to_enu_R)
    IN  [position |-> pose_enu.position,
         orientation |-> pose_enu.orientation,
         linear |-> px4_to_nav2_twist(px4_odom.velocity),
         angular |-> px4_to_nav2_twist(px4_odom.angular_velocity)]

\* convert_nav2_to_px4(nav2_odom): the pose through flu_from_enu and flu_to_ned,
\* the two velocities through the twist chain
convert_nav2_to_px4(nav2_odom) ==
    LET pose_enu == PoseOf(Position(nav2_odom.position[1], nav2_odom.position[2], nav2_odom.position[3]),
                           nav2_odom.orientation)
        pose_flu == Rotated(pose_enu, flu_from_enu_R)
        pose_ned == Rotated(pose_flu, flu_to_ned_R)
    IN  [position |-> pose_ned.position,
         q |-> px4_q(pose_ned.orientation),
         velocity |-> nav2_to_px4_twist(nav2_odom.linear),
         angular_velocity |-> nav2_to_px4_twist(nav2_odom.angular)]

\* Inputs: vectors for the position and the two velocities, unit quaternions
MsgVectors == { <<1, 2, 3>>, <<0, -1, 0>> }

MsgQuaternions ==
    { [v |-> <<0, 0, 0, 1>>, s |-> 1], [v |-> <<1, 0, 0, 1>>, s |-> 2],
      [v |-> <<1, -1, 1, 1>>, s |-> 4], [v |-> <<0, 1, -1, 0>>, s |-> 2] }

Px4Inputs ==
    { [position |-> p, q |-> o, velocity |-> v, angular_velocity |-> w] :
        p \in MsgVectors, o \in MsgQuaternions, v \in MsgVectors, w \in MsgVectors }

Nav2Inputs ==
    { [position |-> p, orientation |-> o, linear |-> v, angular |-> w] :
        p \in MsgVectors, o \in MsgQuaternions, v \in MsgVectors, w \in MsgVectors }

\* what a conversion may be handed: an input message, or what the conversion
\* before it returned when that is a message of its kind
MsgArguments(fn, inputs) ==
    inputs \cup
    { msg_calls[k].ret : k \in { n \in 1..Len(msg_calls) : n = Len(msg_calls) /\ msg_calls[n].fn # fn } }

MsgCall(fn, arg, ret) ==
    /\ Len(msg_calls) < MaxMsgCalls
    /\ msg_calls' = Append(msg_calls, [fn |-> fn, arg |-> arg, ret |-> ret])
    /\ UNCHANGED <<pose_vars, transform_vars, conv_calls>>

call_convert_px4_to_nav2 ==
    \E px4_odom \in MsgArguments("convert_px4_to_nav2", Px4Inputs) :
        MsgCall("convert_px4_to_nav2", px4_odom, convert_px4_to_nav2(px4_odom))

call_convert_nav2_to_px4 ==
    \E nav2_odom \in MsgArguments("convert_nav2_to_px4", Nav2Inputs) :
        MsgCall("convert_nav2_to_px4", nav2_odom, convert_nav2_to_px4(nav2_odom))

-----------------------------------------------------------------------------
(* Inputs of the transformation specification *)

TranslationInputs == { <<0, 0, 0>>, <<1, 2, 3>> }

QuaternionInputs ==
    { [v |-> <<0, 0, 0, 1>>, s |-> 1], [v |-> <<1, 0, 0, 1>>, s |-> 2],
      [v |-> <<0, 0, 1, 0>>, s |-> 1], [v |-> <<1, 1, 1, 1>>, s |-> 4],
      [v |-> <<0, 0, -1, 1>>, s |-> 2], [v |-> <<0, 0, 0, -1>>, s |-> 1] }

PointInputs == { <<0, 0, 0>>, <<0, 1, 0>>, <<1, 2, 3>> }

PointsInputs ==
    { Array1(p) : p \in PointInputs }
    \cup { Array2(rows, 3) : rows \in SeqsUpTo(PointInputs, MaxRows) }
    \cup { Array1(<<1, 2>>), Array1(<<1, 2, 3, 4>>), Array3(<< <<1, 2, 3>> >>),
           [shape |-> << >>, data |-> 1] }
    \cup { Array2([i \in 1..n |-> <<1, 2>>], 2) : n \in 0..MaxRows }
    \cup { Array2([i \in 1..n |-> <<1, 2, 3, 4>>], 4) : n \in 0..MaxRows }

PoseInputs ==
    { [position |-> p, orientation |-> q] :
        p \in TranslationInputs,
        q \in { [v |-> <<0, 0, 0, 1>>, s |-> 1], [v |-> <<1, 0, 0, 1>>, s |-> 2] } }

-----------------------------------------------------------------------------
(* Specifications *)

\* the objects a specification does not use
PoseIdle ==
    /\ position_objs = << >>
    /\ orientation_objs = << >>
    /\ pose_objs = << >>
    /\ calls = << >>

\* Transformation(translation, rotation): __init__ stores the two arrays and
\* caches the matrix.
TransformationInit(t, q) ==
    /\ translation = t
    /\ rotation = q
    /\ transformation_matrix = compute_transformation_matrix(t, q)
    /\ constructed = [translation |-> t, rotation |-> q]
    /\ returned = [op |-> "__init__"]

TransformIdle == TransformationInit(<<0, 0, 0>>, [v |-> <<0, 0, 0, 1>>, s |-> 1])

ConvIdle == conv_calls = << >>

MsgIdle == msg_calls = << >>

\* pos = Position(x, y, z); ori = Orientation(qx, qy, qz, qw); Pose(pos, ori)
PoseConstructed(position, q) ==
    /\ position_objs = << Position(position[1], position[2], position[3]) >>
    /\ orientation_objs = << Orientation(q) >>
    /\ pose_objs = << [position |-> 1, orientation |-> 1] >>
    /\ calls = << >>

\* Spec: one Pose of any input position and any unit quaternion, and the
\* conversions called on it and on their results.
Init ==
    /\ \E position \in PositionInputs, q \in UnitQuaternions : PoseConstructed(position, q)
    /\ TransformIdle
    /\ ConvIdle
    /\ MsgIdle

Next ==
    \/ \E self \in 1..Len(pose_objs) : flu_to_enu(self)
    \/ \E self \in 1..Len(pose_objs) : flu_from_enu(self)
    \/ \E self \in 1..Len(pose_objs) : flu_to_ned(self, "flu_to_ned")
    \/ \E self \in 1..Len(pose_objs) : flu_from_ned(self)
    \/ \E self \in 1..Len(pose_objs), R \in RotationInputs : rotate_any(self, R, "rotate_any")

Spec == Init /\ [][Next]_vars

\* SpecAlias: the conversions together with the constructor and the setters.
InitAlias ==
    /\ PoseConstructed(<<1, 2, 3>>, [v |-> <<1, 0, 0, 1>>, s |-> 2])
    /\ TransformIdle
    /\ ConvIdle
    /\ MsgIdle

NextAlias ==
    \/ \E self \in 1..Len(pose_objs) : flu_to_enu(self)
    \/ \E self \in 1..Len(pose_objs) : flu_from_enu(self)
    \/ \E self \in 1..Len(pose_objs) : flu_to_ned(self, "flu_to_ned")
    \/ \E self \in 1..Len(pose_objs) : flu_from_ned(self)
    \/ \E self \in 1..Len(pose_objs) : rotate_any(self, from_euler("y", 90), "rotate_any")
    \/ \E position \in 0..Len(position_objs), orientation \in 0..Len(orientation_objs) :
        PoseInit(position, orientation)
    \/ \E obj \in 1..Len(position_objs), i \in 1..3, value \in SetterValues :
        position_setter(obj, i, value)
    \/ \E obj \in 1..Len(orientation_objs), i \in 1..4, value \in -1..1 :
        orientation_setter(obj, i, value)

SpecAlias == InitAlias /\ [][NextAlias]_vars

\* SpecTransform: one Transformation, assignments to its attributes, and calls.
InitTransform ==
    /\ \E t \in TranslationInputs, q \in QuaternionInputs : TransformationInit(t, q)
    /\ PoseIdle
    /\ ConvIdle
    /\ MsgIdle

NextTransform ==
    \/ \E points \in PointsInputs : apply_transformation(points)
    \/ \E value \in TranslationInputs : translation_assign(value)
    \/ \E value \in QuaternionInputs : rotation_assign(value)
    \/ \E parent_pose \in PoseInputs, child_pose \in PoseInputs,
          globals \in {ImportedGlobals, MainGlobals} :
        from_global_poses(parent_pose, child_pose, globals)

SpecTransform == InitTransform /\ [][NextTransform]_vars

\* SpecConvert: converter calls on input arrays of every shape.
InitConvert ==
    /\ ConvIdle
    /\ MsgIdle
    /\ PoseIdle
    /\ TransformIdle

NextConvert ==
    \/ call_spherical_to_cartesian
    \/ call_cartesian_to_spherical
    \/ call_cylindrical_to_cartesian
    \/ call_cartesian_to_cylindrical

SpecConvert == InitConvert /\ [][NextConvert]_vars

\* SpecMessages: the two message conversions, on input messages and on each
\* other's results.
InitMessages ==
    /\ MsgIdle
    /\ PoseIdle
    /\ TransformIdle
    /\ ConvIdle

NextMessages ==
    \/ call_convert_px4_to_nav2
    \/ call_convert_nav2_to_px4

SpecMessages == InitMessages /\ [][NextMessages]_vars

-----------------------------------------------------------------------------
(* Claims about Pose (Spec, SpecAlias) *)

ChainedCalls(j, k) ==
    /\ j \in 1..Len(calls)
    /\ k \in 1..Len(calls)
    /\ calls[j].op \in ConversionOps
    /\ calls[k].op \in ConversionOps
    /\ calls[k].self = calls[j].ret
    /\ calls[k].self_position = calls[j].ret_position
    /\ calls[k].self_orientation = calls[j].ret_orientation

Negated(q) == [v |-> [i \in 1..4 |-> -q.v[i]], s |-> q.s]

\* C1: for every pose p with a unit quaternion, p.flu_to_enu().flu_from_enu()
\* has p's position and p's orientation quaternion, component by component.
C1_EnuRoundTrip ==
    \A j, k \in 1..Len(calls) :
        (ChainedCalls(j, k) /\ calls[j].op = "flu_to_enu" /\ calls[k].op = "flu_from_enu"
         /\ IsUnit(calls[j].self_orientation))
        => /\ calls[k].ret_position = calls[j].self_position
           /\ calls[k].ret_orientation = calls[j].self_orientation

C1_Witness ==
    \E j, k \in 1..Len(calls) :
        /\ ChainedCalls(j, k)
        /\ calls[j].op = "flu_to_enu"
        /\ calls[k].op = "flu_from_enu"
        /\ calls[j].self_position = <<1, 2, 3>>
        /\ calls[j].self_orientation = [v |-> <<1, -1, 1, 1>>, s |-> 4]
        /\ calls[j].ret_position # calls[j].self_position
        /\ calls[j].ret_orientation # calls[j].self_orientation

NedTwice(j, k) ==
    /\ ChainedCalls(j, k)
    /\ calls[j].op \in {"flu_to_ned", "flu_from_ned"}
    /\ calls[k].op = "flu_to_ned"
    /\ IsUnit(calls[j].self_orientation)

\* C2 as claimed: p.flu_to_ned().flu_to_ned() and p.flu_from_ned().flu_to_ned()
\* have p's position and p's orientation quaternion, component by component.
C2_NedTwiceSameQuaternion ==
    \A j, k \in 1..Len(calls) :
        NedTwice(j, k)
        => /\ calls[k].ret_position = calls[j].self_position
           /\ calls[k].ret_orientation = calls[j].self_orientation

\* C2 as amended: p.flu_to_ned().flu_to_ned() and p.flu_from_ned().flu_to_ned()
\* have p's position, and the orientation quaternion (-qx, -qy, -qz, -qw): the
\* same rotation as p's, every component negated.
C2_NedTwiceNegatedQuaternion ==
    \A j, k \in 1..Len(calls) :
        NedTwice(j, k)
        => /\ calls[k].ret_position = calls[j].self_position
           /\ calls[k].ret_orientation = Negated(calls[j].self_orientation)
           /\ as_matrix(calls[k].ret_orientation) = as_matrix(calls[j].self_orientation)

C2_Witness ==
    \E j, k \in 1..Len(calls) :
        /\ NedTwice(j, k)
        /\ calls[j].op = "flu_to_ned"
        /\ calls[j].self_position = <<1, 2, 3>>
        /\ calls[j].ret_position = <<1, -2, -3>>
        /\ calls[j].self_orientation = [v |-> <<0, 0, 1, 1>>, s |-> 2]
        /\ calls[k].ret_orientation = [v |-> <<0, 0, -1, -1>>, s |-> 2]

\* q * (vec, 0) * conj(q) / |q|^2: the rotation of vec by q as a quaternion product
Sandwich(q, vec) ==
    LET h == Hamilton(Hamilton(q.v, << vec[1], vec[2], vec[3], 0 >>), inv(q).v)
        n == Norm2(q.v)
    IN  << Quot(h[1], n), Quot(h[2], n), Quot(h[3], n) >>

Axes == { <<1, 0, 0>>, <<0, 1, 0>>, <<0, 0, 1>> }

\* C3: rotate_any(R) returns a pose whose position is R applied to p's position
\* and whose orientation is the quaternion product R * p.orientation, R on the
\* left: the orientation turns a vector as p's does and then R.
C3_RotateAny ==
    \A k \in 1..Len(calls) :
        calls[k].op = "rotate_any"
        => /\ calls[k].ret_position = Sandwich(calls[k].R, calls[k].self_position)
           /\ calls[k].ret_orientation
                = from_quat([v |-> Hamilton(calls[k].R.v, calls[k].self_orientation.v),
                             s |-> calls[k].R.s * calls[k].self_orientation.s])
           /\ IsUnit(calls[k].ret_orientation)
           /\ \A e \in Axes :
                 Sandwich(calls[k].ret_orientation, e)
                   = Sandwich(calls[k].R, Sandwich(calls[k].self_orientation, e))

C3_Witness ==
    \E k \in 1..Len(calls) :
        /\ calls[k].op = "rotate_any"
        /\ calls[k].R = [v |-> <<1, 0, 0, 1>>, s |-> 2]
        /\ calls[k].self_position = <<1, 2, 3>>
        /\ calls[k].ret_position = <<1, -3, 2>>
        /\ calls[k].self_orientation = [v |-> <<0, 1, 0, 1>>, s |-> 2]
        /\ calls[k].ret_orientation = [v |-> <<1, 1, 1, 1>>, s |-> 4]

IsSetter(c) == c.op \in {"position_setter", "orientation_setter"}

\* the setter call c wrote into an object of pose p
SetsObjectOf(c, p) ==
    \/ c.op = "position_setter" /\ c.obj = pose_objs[p].position
    \/ c.op = "orientation_setter" /\ c.obj = pose_objs[p].orientation

\* C4: a conversion leaves the receiver's position and orientation as they
\* were, returns a Pose whose Position and Orientation are not the receiver's
\* objects, and a later setter call on the result leaves the receiver as it was.
C4_Pure ==
    \A k \in 1..Len(calls) :
        calls[k].op \in ConversionOps
        => /\ calls[k].self_position_after = calls[k].self_position
           /\ calls[k].self_orientation_after = calls[k].self_orientation
           /\ calls[k].ret # calls[k].self
           /\ pose_objs[calls[k].ret].position # pose_objs[calls[k].self].position
           /\ pose_objs[calls[k].ret].orientation # pose_objs[calls[k].self].orientation
           /\ \A j \in (k + 1)..Len(calls) :
                 (IsSetter(calls[j]) /\ SetsObjectOf(calls[j], calls[k].ret))
                 => /\ calls[j].positions_after[pose_objs[calls[k].self].position]
                         = calls[j].positions_before[pose_objs[calls[k].self].position]
                    /\ calls[j].orientations_after[pose_objs[calls[k].self].orientation]
                         = calls[j].orientations_before[pose_objs[calls[k].self].orientation]

C4_Witness ==
    \E k, j \in 1..Len(calls) :
        /\ k < j
        /\ calls[k].op = "flu_to_enu"
        /\ calls[k].ret_position # calls[k].self_position
        /\ calls[j].op = "position_setter"
        /\ SetsObjectOf(calls[j], calls[k].ret)
        /\ calls[j].positions_after # calls[j].positions_before
        /\ PosePosition(calls[k].self) = calls[k].self_position
        /\ PosePosition(calls[k].ret) # calls[k].ret_position

\* C16: flu_to_ned maps the position (x, y, z) to (x, -y, -z); flu_from_ned(p)
\* returns the position and orientation flu_to_ned(p) returns; flu_to_enu
\* turns the position by -90 degrees about z, (x, y, z) to (y, -x, z), and
\* flu_from_enu by +90 degrees, to (-y, x, z), z unchanged in both.
C16_ConversionPositions ==
    \A j, k \in 1..Len(calls) :
        LET pos == calls[k].self_position
        IN  /\ calls[k].op \in {"flu_to_ned", "flu_from_ned"}
               => calls[k].ret_position = << pos[1], -pos[2], -pos[3] >>
            /\ (calls[k].op = "flu_from_ned" /\ calls[j].op = "flu_to_ned"
                /\ calls[j].self_position = pos
                /\ calls[j].self_orientation = calls[k].self_orientation)
               => /\ calls[k].ret_position = calls[j].ret_position
                  /\ calls[k].ret_orientation = calls[j].ret_orientation
            /\ calls[k].op = "flu_to_enu"
               => calls[k].ret_position = << pos[2], -pos[1], pos[3] >>
            /\ calls[k].op = "flu_from_enu"
               => calls[k].ret_position = << -pos[2], pos[1], pos[3] >>

\* flu_to_ned and flu_from_ned called on one pose at (1, 2, 3)
C16_Witness ==
    \E j, k \in 1..Len(calls) :
        /\ calls[j].op = "flu_to_ned"
        /\ calls[k].op = "flu_from_ned"
        /\ calls[j].self = calls[k].self
        /\ calls[j].self_position = << 1, 2, 3 >>
        /\ calls[j].ret_position = << 1, -2, -3 >>
        /\ calls[k].ret_position = << 1, -2, -3 >>
        /\ calls[k].ret_orientation = calls[j].ret_orientation

\* the Poses constructed with Pose(pos, ori) before call m: the Pose of the
\* initial state and those of the constructor calls before m
ConstructedBefore(m) ==
    {1} \cup { calls[k].ret : k \in { n \in 1..(m - 1) : calls[n].op = "Pose" } }

\* setter call m is on an object its caller handed to a Pose constructor
OnCallersObject(m) ==
    \/ calls[m].obj = 1
    \/ \E n \in 1..(m - 1) :
          /\ calls[n].op = "Pose"
          /\ \/ calls[m].op = "position_setter" /\ calls[m].obj = calls[n].position
             \/ calls[m].op = "orientation_setter" /\ calls[m].obj = calls[n].orientation

\* C13: after Pose(position=pos, orientation=ori) is constructed, a setter call
\* on the caller's pos or ori leaves the position and the orientation of every
\* constructed Pose as they were, the other Poses constructed from the same
\* object included.
C13_OwnsByValue ==
    \A m \in 1..Len(calls) :
        (IsSetter(calls[m]) /\ OnCallersObject(m))
        => \A p \in ConstructedBefore(m) :
              /\ calls[m].positions_after[pose_objs[p].position]
                   = calls[m].positions_before[pose_objs[p].position]
              /\ calls[m].orientations_after[pose_objs[p].orientation]
                   = calls[m].orientations_before[pose_objs[p].orientation]

-----------------------------------------------------------------------------
(* Claims about Transformation (SpecTransform) *)

Plus3(a, b) == << a[1] + b[1], a[2] + b[2], a[3] + b[3] >>
Minus3(a, b) == << a[1] - b[1], a[2] - b[2], a[3] - b[3] >>

\* R p + t for the quaternion q and the translation t
Affine(t, q, p) == Plus3(Sandwich(from_quat(q), p), t)

AppliedTo(shape) ==
    /\ returned.op = "apply_transformation"
    /\ returned.points.shape = shape

\* C5: apply_transformation returns R p + t for the stored quaternion and the
\* stored translation, for a point (3,) and row by row for a batch (N, 3): the
\* identity transform returns its input, translation (1, 2, 3) with the
\* identity rotation maps (0, 0, 0) to (1, 2, 3), and the quaternion of 90
\* degrees about x maps (0, 1, 0) to (0, 0, 1).
C5_ApplyIsAffine ==
    (returned.op = "apply_transformation" /\ returned.ret.raised = "None")
    => LET points == returned.points
           value == returned.ret.value
       IN  /\ value.shape = points.shape
           /\ ndim(points) = 1 => value.data = Affine(translation, rotation, points.data)
           /\ ndim(points) = 2 =>
                 \A i \in 1..points.shape[1] :
                     value.data[i] = Affine(translation, rotation, points.data[i])
           /\ (translation = <<0, 0, 0>> /\ rotation.v = <<0, 0, 0, 1>>) => value = points
           /\ (translation = <<1, 2, 3>> /\ rotation.v = <<0, 0, 0, 1>>
               /\ points = Array1(<<0, 0, 0>>)) => value = Array1(<<1, 2, 3>>)
           /\ (translation = <<0, 0, 0>> /\ rotation = [v |-> <<1, 0, 0, 1>>, s |-> 2]
               /\ points = Array1(<<0, 1, 0>>)) => value = Array1(<<0, 0, 1>>)

\* What holds of apply_transformation whatever was assigned since __init__: it
\* returns R p + t for the quaternion and the translation the Transformation
\* was constructed with.
ApplyUsesConstructed ==
    (returned.op = "apply_transformation" /\ returned.ret.raised = "None")
    => LET points == returned.points
           value == returned.ret.value
       IN  /\ ndim(points) = 1 =>
                 value.data = Affine(constructed.translation, constructed.rotation, points.data)
           /\ ndim(points) = 2 =>
                 \A i \in 1..points.shape[1] :
                     value.data[i] = Affine(constructed.translation, constructed.rotation,
                                            points.data[i])

AppliedAfterConstruction ==
    /\ AppliedTo(<< 3 >>)
    /\ translation = constructed.translation
    /\ rotation = constructed.rotation
    /\ constructed.translation = <<1, 2, 3>>
    /\ constructed.rotation = [v |-> <<1, 0, 0, 1>>, s |-> 2]

\* C6: in every state the cached transformation_matrix is the matrix composed
\* from the current rotation and translation.
C6_CachedMatrixCurrent ==
    transformation_matrix = compute_transformation_matrix(translation, rotation)

\* C7: from_global_poses(parent_pose, child_pose) returns, without raising, the
\* Transformation with rotation child * parent^-1 and translation
\* R_parent^-1 (child.position - parent.position).
C7_FromGlobalPoses ==
    returned.op = "from_global_poses"
    => LET parent == from_quat(returned.parent_pose.orientation)
           child == from_quat(returned.child_pose.orientation)
       IN  /\ returned.ret.raised = "None"
           /\ returned.ret.value.rotation = as_quat(compose(child, inv(parent)))
           /\ returned.ret.value.translation
                = apply(inv(parent), Minus3(returned.child_pose.position,
                                            returned.parent_pose.position))

\* C8: apply_transformation returns for the shapes (3,) and (N, 3), N >= 0, and
\* for every other shape raises ValueError, returns nothing, and leaves the
\* Transformation as it was.
C8_ApplyShapes ==
    returned.op = "apply_transformation"
    => LET shape == returned.points.shape
           accepted == shape = << 3 >> \/ (Len(shape) = 2 /\ shape[2] = 3)
       IN  /\ accepted => (returned.ret.raised = "None" /\ returned.ret.value.shape = shape)
           /\ ~accepted => returned.ret = Raises("ValueError")
           /\ << translation, rotation, transformation_matrix >> = returned.before

C8_Witness ==
    /\ AppliedTo(<< 2, 4 >>)
    /\ returned.ret.raised = "ValueError"
    /\ returned.before = << translation, rotation, transformation_matrix >>

-----------------------------------------------------------------------------
(* Claims about the converters (SpecConvert) *)

Converters == {"spherical_to_cartesian", "cartesian_to_spherical",
               "cylindrical_to_cartesian", "cartesian_to_cylindrical"}

\* C9: each converter raises ValueError on every array that is not N x 3, and
\* returns nothing then; on an N x 3 array it returns an N x 3 array.
C9_ConverterShapes ==
    \A k \in 1..Len(conv_calls) :
        LET c == conv_calls[k]
            shape == c.arg.shape
        IN  /\ c.fn \in Converters
            /\ IF Len(shape) = 2 /\ shape[2] = 3
               THEN c.ret.raised = "None" /\ c.ret.value.shape = shape
               ELSE c.ret = Raises("ValueError")

C9_Witness ==
    \E k \in 1..Len(conv_calls) :
        /\ conv_calls[k].fn = "cartesian_to_cylindrical"
        /\ conv_calls[k].arg.shape = << 2, 2 >>
        /\ conv_calls[k].ret.raised = "ValueError"

\* cartesian_to_cylindrical(cylindrical_to_cartesian(pts)) as calls j and k
CylindricalRoundTrip(j, k) ==
    /\ j \in 1..Len(conv_calls)
    /\ k = j + 1
    /\ k \in 1..Len(conv_calls)
    /\ conv_calls[j].fn = "cylindrical_to_cartesian"
    /\ conv_calls[k].fn = "cartesian_to_cylindrical"
    /\ conv_calls[j].ret.raised = "None"
    /\ conv_calls[k].arg = conv_calls[j].ret.value

\* C10 as claimed: for every N x 3 array of cylindrical points, rows with
\* negative r, r = 0 or theta outside (-pi, pi] included,
\* cartesian_to_cylindrical(cylindrical_to_cartesian(pts)) = pts.
C10_CylindricalRoundTripAll ==
    \A j, k \in 1..Len(conv_calls) :
        CylindricalRoundTrip(j, k) => conv_calls[k].ret.value = conv_calls[j].arg

\* r > 0 and theta in (-pi, pi], or r = 0 and theta = 0
PrincipalCylindrical(p) ==
    \/ p[1] > 0 /\ p[2].turns = 0
    \/ p[1] = 0 /\ p[2] = Angle(<< 1, 0 >>, 0)

\* C10 as amended: for every N x 3 array of cylindrical points in which every
\* row has r > 0 and theta in (-pi, pi], or r = 0 and theta = 0,
\* cartesian_to_cylindrical(cylindrical_to_cartesian(pts)) = pts.
C10_CylindricalRoundTripPrincipal ==
    \A j, k \in 1..Len(conv_calls) :
        (CylindricalRoundTrip(j, k)
         /\ \A i \in 1..conv_calls[j].arg.shape[1] : PrincipalCylindrical(conv_calls[j].arg.data[i]))
        => conv_calls[k].ret.value = conv_calls[j].arg

C10_Witness ==
    \E j, k \in 1..Len(conv_calls) :
        /\ CylindricalRoundTrip(j, k)
        /\ conv_calls[j].arg.data
             = << << 5, Angle(<< -4, 3 >>, 0), 12 >>, << 5, Angle(<< -1, 0 >>, 0), 12 >> >>
        /\ conv_calls[j].ret.value.data = << << -4, 3, 12 >>, << -5, 0, 12 >> >>
        /\ conv_calls[k].ret.value = conv_calls[j].arg

\* cartesian_to_spherical(spherical_to_cartesian(pts)) as calls j and k
SphericalRoundTrip(j, k) ==
    /\ j \in 1..Len(conv_calls)
    /\ k = j + 1
    /\ k \in 1..Len(conv_calls)
    /\ conv_calls[j].fn = "spherical_to_cartesian"
    /\ conv_calls[k].fn = "cartesian_to_spherical"
    /\ conv_calls[j].ret.raised = "None"
    /\ conv_calls[k].arg = conv_calls[j].ret.value

\* r > 0 and phi in (0, pi): the polar angle is off both poles
OffThePoles(p) == p[1] > 0 /\ p[3].turns = 0 /\ p[3].dir[2] > 0

\* C11 as claimed: for every N x 3 array of spherical points with r > 0 and phi
\* in (0, pi) and any theta, theta outside (-pi, pi] included,
\* cartesian_to_spherical(spherical_to_cartesian(pts)) = pts.
C11_SphericalRoundTripAnyTheta ==
    \A j, k \in 1..Len(conv_calls) :
        (SphericalRoundTrip(j, k)
         /\ \A i \in 1..conv_calls[j].arg.shape[1] : OffThePoles(conv_calls[j].arg.data[i]))
        => conv_calls[k].ret.value = conv_calls[j].arg

\* C11 as amended: for every N x 3 array of spherical points with r > 0, phi in
\* (0, pi) and theta in (-pi, pi],
\* cartesian_to_spherical(spherical_to_cartesian(pts)) = pts.
C11_SphericalRoundTripPrincipal ==
    \A j, k \in 1..Len(conv_calls) :
        (SphericalRoundTrip(j, k)
         /\ \A i \in 1..conv_calls[j].arg.shape[1] :
               OffThePoles(conv_calls[j].arg.data[i]) /\ conv_calls[j].arg.data[i][2].turns = 0)
        => conv_calls[k].ret.value = conv_calls[j].arg

C11_Witness ==
    \E j, k \in 1..Len(conv_calls) :
        /\ SphericalRoundTrip(j, k)
        /\ conv_calls[j].arg.data
             = << << 25, Angle(<< 3, 4 >>, 0), Angle(<< -4, 3 >>, 0) >>,
                  << 25, Angle(<< 0, -1 >>, 0), Angle(<< 3, 4 >>, 0) >> >>
        /\ conv_calls[j].ret.value.data = << << 9, 12, -20 >>, << 0, -20, 15 >> >>
        /\ conv_calls[k].ret.value = conv_calls[j].arg

-----------------------------------------------------------------------------
(* Claims about the message conversions (SpecMessages) *)

\* convert_nav2_to_px4(convert_px4_to_nav2(m)) as calls j and k
Px4RoundTrip(j, k) ==
    /\ j \in 1..Len(msg_calls)
    /\ k = j + 1
    /\ k \in 1..Len(msg_calls)
    /\ msg_calls[j].fn = "convert_px4_to_nav2"
    /\ msg_calls[k].fn = "convert_nav2_to_px4"
    /\ msg_calls[k].arg = msg_calls[j].ret
    /\ IsUnit(msg_calls[j].arg.q)

\* C12 as claimed: convert_nav2_to_px4(convert_px4_to_nav2(m)) has m's
\* position, m's quaternion components (w, x, y, z) and m's two velocities.
C12_MessageRoundTripSameQuaternion ==
    \A j, k \in 1..Len(msg_calls) :
        Px4RoundTrip(j, k)
        => /\ msg_calls[k].ret.position = msg_calls[j].arg.position
           /\ msg_calls[k].ret.q = msg_calls[j].arg.q
           /\ msg_calls[k].ret.velocity = msg_calls[j].arg.velocity
           /\ msg_calls[k].ret.angular_velocity = msg_calls[j].arg.angular_velocity

\* C12 as amended: convert_nav2_to_px4(convert_px4_to_nav2(m)) has m's
\* position and m's two velocities, and the quaternion (-w, -x, -y, -z): m's
\* orientation with every component negated.
C12_MessageRoundTripNegatedQuaternion ==
    \A j, k \in 1..Len(msg_calls) :
        Px4RoundTrip(j, k)
        => /\ msg_calls[k].ret.position = msg_calls[j].arg.position
           /\ msg_calls[k].ret.q = Negated(msg_calls[j].arg.q)
           /\ msg_calls[k].ret.velocity = msg_calls[j].arg.velocity
           /\ msg_calls[k].ret.angular_velocity = msg_calls[j].arg.angular_velocity

C12_Witness ==
    \E j, k \in 1..Len(msg_calls) :
        /\ Px4RoundTrip(j, k)
        /\ msg_calls[j].arg = [position |-> <<1, 2, 3>>, q |-> [v |-> <<1, -1, 1, 1>>, s |-> 4],
                               velocity |-> <<0, -1, 0>>, angular_velocity |-> <<1, 2, 3>>]
        /\ msg_calls[k].ret = [position |-> <<1, 2, 3>>, q |-> [v |-> <<-1, 1, -1, -1>>, s |-> 4],
                               velocity |-> <<0, -1, 0>>, angular_velocity |-> <<1, 2, 3>>]

\* (x, y, z) between (east, north, up) and (north, east, down), either way
SwapEnuNed(vec) == << vec[2], vec[1], -vec[3] >>

\* C14: the ENU -> NED chain of convert_nav2_to_px4 (flu_from_enu, then
\* flu_to_ned) maps the position (east, north, up) to (north, east, down)
\* = (y, x, -z), and the NED -> ENU chain of convert_px4_to_nav2 (flu_from_ned,
\* then flu_to_enu) maps (north, east, down) to (east, north, up) = (y, x, -z).
C14_AxisMeanings ==
    \A k \in 1..Len(msg_calls) :
        msg_calls[k].ret.position = SwapEnuNed(msg_calls[k].arg.position)

\* C15: in both conversions a velocity vector equal to the position vector
\* comes out equal to the output position, for the linear and for the angular
\* velocity, the chain being Rz(-90) Rx(180) in convert_px4_to_nav2 and
\* Rx(180) Rz(+90) in convert_nav2_to_px4, and two calls of one conversion with
\* the same velocity vectors return the same velocities whatever their
\* quaternions and positions are.
C15_TwistFollowsPosition ==
    \A j, k \in 1..Len(msg_calls) :
        LET a == msg_calls[k].arg
            r == msg_calls[k].ret
            b == msg_calls[j].arg
            t == msg_calls[j].ret
        IN  /\ msg_calls[k].fn = "convert_px4_to_nav2"
               => /\ r.linear = apply(compose(from_euler("z", -90), from_euler("x", 180)), a.velocity)
                  /\ a.velocity = a.position => r.linear = r.position
                  /\ a.angular_velocity = a.position => r.angular = r.position
                  /\ (msg_calls[j].fn = msg_calls[k].fn /\ b.velocity = a.velocity)
                     => t.linear = r.linear
                  /\ (msg_calls[j].fn = msg_calls[k].fn /\ b.angular_velocity = a.angular_velocity)
                     => t.angular = r.angular
            /\ msg_calls[k].fn = "convert_nav2_to_px4"
               => /\ r.velocity = apply(compose(from_euler("x", 180), from_euler("z", 90)), a.linear)
                  /\ a.linear = a.position => r.velocity = r.position
                  /\ a.angular = a.position => r.angular_velocity = r.position
                  /\ (msg_calls[j].fn = msg_calls[k].fn /\ b.linear = a.linear)
                     => t.velocity = r.velocity
                  /\ (msg_calls[j].fn = msg_calls[k].fn /\ b.angular = a.angular)
                     => t.angular_velocity = r.angular_velocity

\* two calls of convert_nav2_to_px4 on messages with different quaternions and
\* positions and the same velocities, one with the velocity at the position
C15_Witness ==
    \E j, k \in 1..Len(msg_calls) :
        /\ msg_calls[j].fn = "convert_nav2_to_px4"
        /\ msg_calls[k].fn = "convert_nav2_to_px4"
        /\ msg_calls[j].arg.orientation # msg_calls[k].arg.orientation
        /\ msg_calls[j].arg.position # msg_calls[k].arg.position
        /\ msg_calls[j].arg.linear = << 1, 2, 3 >>
        /\ msg_calls[k].arg.linear = << 1, 2, 3 >>
        /\ msg_calls[k].arg.position = << 1, 2, 3 >>
        /\ msg_calls[k].ret.velocity = << -2, -1, -3 >>
        /\ msg_calls[k].ret.position = << -2, -1, -3 >>
        /\ msg_calls[j].ret.velocity = << -2, -1, -3 >>

=============================================================================
